---- MODULE Spec2Model ----
(***************************************************************************)
(* Model of LibICE-post's run-time selection registry (BaseClass /         *)
(* SelectionTable), of the stoichiometric combustion balancer              *)
(* (StoichiometricCombustion), and of the Dictionary container with the    *)
(* parts of EngineModel that use it (EGR model construction, time loop).   *)
(*                                                                         *)
(* Python exceptions are modelled as values: every modelled function       *)
(* returns an outcome record [ok, val, err]; an outcome with ok = FALSE is *)
(* an exception propagating out of the function.                           *)
(***************************************************************************)
EXTENDS Integers, Sequences, FiniteSets, TLC

VARIABLES
    classAttrs,   \* classAttrs[c]: attributes set on class c with setattr (name -> table id)
    tables,       \* tables[c]: the SelectionTable object created for class c (or NoTable)
    TypeName,     \* TypeName[c]: the attribute cls.TypeName set by _add_TypeName ("" = not set)
    listing,      \* the mapping last returned by SelectionTable.db, as held by the caller
    last,         \* the last call made and its outcome
    oxidizer,     \* StoichiometricCombustion._oxidizer
    reactants,    \* ReactionModel._reactants
    products,     \* ReactionModel._products
    fuels,        \* StoichiometricCombustion._fuels
    upd,          \* the last call of _update and its outcome
    dicts,        \* dicts[d]: the content of Dictionary object d of the engine model
    CA,           \* the crank angles of the data loaded in the engine model
    EgrModel,     \* EngineModel.EgrModel
    updated,      \* the steps for which EngineModel._update has run, in order
    eng           \* the last call on the engine model or its dictionaries, and its outcome

registryVars == <<classAttrs, tables, TypeName, listing, last>>
combustionVars == <<oxidizer, reactants, products, fuels, upd>>
engineVars == <<dicts, CA, EgrModel, updated, eng>>
vars == <<classAttrs, tables, TypeName, listing, last,
          oxidizer, reactants, products, fuels, upd,
          dicts, CA, EgrModel, updated, eng>>

-----------------------------------------------------------------------------
(* The class hierarchy the registry operates on.                           *)

\* BaseClass, ReactionModel, StoichiometricCombustion are the repository's
\* classes; UserCombustion is a class derived from StoichiometricCombustion;
\* OtherCombustion is a second class whose __name__ is also
\* "StoichiometricCombustion", derived directly from BaseClass. No class has
\* the __name__ of one of its own ancestors.
ClassIds ==
    {"BaseClass", "ReactionModel", "StoichiometricCombustion",
     "UserCombustion", "OtherCombustion"}

\* cls.__name__
ClassName(c) ==
    IF c = "OtherCombustion" THEN "StoichiometricCombustion" ELSE c

\* The first base of each class statement.
Bases ==
    [BaseClass |-> "Utilities",
     ReactionModel |-> "BaseClass",
     StoichiometricCombustion |-> "ReactionModel",
     UserCombustion |-> "StoichiometricCombustion",
     OtherCombustion |-> "BaseClass",
     Utilities |-> "object"]

\* The chain of first bases up to object
RECURSIVE BaseChain(_)
BaseChain(c) ==
    IF c = "object" THEN <<"object">> ELSE <<c>> \o BaseChain(Bases[c])

\* cls.__mro__, fixed when the class is defined
Mro == [c \in DOMAIN Bases |-> BaseChain(c)]

\* inspect.getmro(cls) for single inheritance
getmro(c) == Mro[c]

getBaseClassGrand(cls) == getmro(cls)[3]

\* _getBaseClass: inspect.getmro(cls)[1] (0-based)
getBaseClass(cls) == getmro(cls)[2]

issubclass(c, b) == \E i \in 1..Len(getmro(c)) : getmro(c)[i] = b

\* inspect.isabstract(cls): BaseClass declares fromDictionary abstract and
\* ReactionModel does not override it; the combustion classes do.
isabstract(c) == c \in {"BaseClass", "ReactionModel", "OtherCombustion"}

\* The classes on which createRuntimeSelectionTable and selector are called:
\* those with subclasses of their own.
TableOwners == {"BaseClass", "ReactionModel", "StoichiometricCombustion"}

\* Names a caller may pass as typeName
UnregisteredName == "NoSuchModel"
TypeNames == {ClassName(c) : c \in ClassIds} \cup {UnregisteredName}

EmptyMap == [n \in {} |-> "None"]
NoTable == [type |-> "None", db |-> EmptyMap]

-----------------------------------------------------------------------------
(* Exceptions                                                              *)

\* names: the type/class names the message mentions; lists: the names the
\* message lists as available.
NoErr == [kind |-> "none", func |-> "", msg |-> "", names |-> {}, lists |-> {}]

Raise(kind, func, msg, names, lists) ==
    [kind |-> kind, func |-> func, msg |-> msg, names |-> names, lists |-> lists]

\* Utilities.fatalErrorInClass(func, msg, err): raises a fatal error carrying
\* the message and the context of the error that caused it.
fatalErrorInClass(func, msg, names, err) ==
    [kind |-> "FatalError", func |-> func, msg |-> msg,
     names |-> names \cup err.names, lists |-> err.lists]

NoInst == [type |-> "None", oxidizer |-> "None"]

Ok(v) == [ok |-> TRUE, val |-> v, err |-> NoErr]
Fail(e) == [ok |-> FALSE, val |-> NoInst, err |-> e]

-----------------------------------------------------------------------------
(* Class attributes: hasattr / getattr walk the MRO.                       *)

\* f"_{cls.__name__}__selectionTable", for each class
MangledNames == [c \in ClassIds |-> "_" \o ClassName(c) \o "__selectionTable"]

AttrName(cls) == MangledNames[cls]

\* The classes of the MRO that carry attributes of their own
AttrHolders(cls) ==
    {i \in 1..Len(getmro(cls)) :
        getmro(cls)[i] \in ClassIds /\ AttrName(cls) \in DOMAIN classAttrs[getmro(cls)[i]]}

\* BaseClass.hasSelectionTable: hasattr(cls, f"_{cls.__name__}__selectionTable")
hasSelectionTable(cls) == AttrHolders(cls) # {}

\* getattr(cls, f"_{cls.__name__}__selectionTable"): the first class of the MRO
\* that has the attribute provides it.
getSelectionTableAttr(cls) ==
    LET i == CHOOSE j \in AttrHolders(cls) : \A k \in AttrHolders(cls) : j <= k
    IN  classAttrs[getmro(cls)[i]][AttrName(cls)]

selectionTableInherited(cls) ==
    IF \E c \in ClassIds : issubclass(cls, c) /\ tables[c] # NoTable
    THEN [ok |-> TRUE,
          val |-> getmro(cls)[CHOOSE i \in 1..Len(getmro(cls)) :
                     /\ getmro(cls)[i] \in ClassIds
                     /\ tables[getmro(cls)[i]] # NoTable
                     /\ \A k \in 1..(i-1) : tables[getmro(cls)[k]] = NoTable],
          err |-> NoErr]
    ELSE Fail(fatalErrorInClass("selectionTable",
                "No run-time selection available for class", {ClassName(cls)}, NoErr))

\* BaseClass.selectionTable
selectionTable(cls) ==
    IF ~hasSelectionTable(cls)
    THEN Fail(fatalErrorInClass("selectionTable",
                "No run-time selection available for class", {ClassName(cls)}, NoErr))
    ELSE [ok |-> TRUE, val |-> getSelectionTableAttr(cls), err |-> NoErr]

-----------------------------------------------------------------------------
(* SelectionTable: t is the table object (identified by the class it was   *)
(* created for).                                                           *)

\* Attributes a SelectionTable object has: those its class defines and those
\* of Utilities that the repository uses.
SelectionTableAttrs ==
    {"type", "db", "__init__", "__str__", "__repr__", "__contains__",
     "__getitem__", "add", "check", "checkType", "fatalErrorInClass"}

\* SelectionTable.__contains__
contains(t, typeName) == typeName \in DOMAIN tables[t].db

getitemOwner(t, typeName) ==
    [ok |-> TRUE, val |-> tables[t].type, err |-> NoErr]

\* SelectionTable.__getitem__: on a missing name the ValueError is caught and
\* the handler evaluates self.__get__ to report it.
getitem(t, typeName) ==
    IF ~contains(t, typeName)
    THEN IF "__get__" \in SelectionTableAttrs
         THEN Fail(fatalErrorInClass("__get__", "Argument checking failed", {},
                     Raise("ValueError", "__getitem__",
                           "Class not found in selection table.", {typeName}, {})))
         ELSE Fail(Raise("AttributeError", "__getitem__",
                     "'SelectionTable' object has no attribute '__get__'", {}, {}))
    ELSE [ok |-> TRUE, val |-> tables[t].db[typeName], err |-> NoErr]

\* SelectionTable.check
check(t, typeName) ==
    IF ~contains(t, typeName)
    THEN Fail(Raise("ValueError", "check",
                "No class found in selection table for class. Available classes are:",
                {typeName, ClassName(tables[t].type)}, DOMAIN tables[t].db))
    ELSE [ok |-> TRUE, val |-> TRUE, err |-> NoErr]

\* The new (tables, TypeName) after a registry call, or the error it raised
Changed(tb, tn) == [ok |-> TRUE, err |-> NoErr, tables |-> tb, TypeName |-> tn]
Refused(e) == [ok |-> FALSE, err |-> e, tables |-> tables, TypeName |-> TypeName]

addOverwrite(t, cls) ==
    IF issubclass(cls, tables[t].type)
    THEN Changed([tables EXCEPT ![t].db = (ClassName(cls) :> cls) @@ @],
                 [TypeName EXCEPT ![cls] = ClassName(cls)])
    ELSE Refused(fatalErrorInClass("add",
            "Class is not derived from owner; cannot add to runtime selection table.",
            {ClassName(cls), ClassName(tables[t].type)}, NoErr))

addAnyClass(t, cls) ==
    IF ~contains(t, ClassName(cls))
    THEN Changed([tables EXCEPT ![t].db = (ClassName(cls) :> cls) @@ @],
                 [TypeName EXCEPT ![cls] = ClassName(cls)])
    ELSE Refused(fatalErrorInClass("add",
            "Subclass already present in selection table, cannot add to selection table.",
            {ClassName(cls)}, NoErr))

\* SelectionTable.add
add(t, cls) ==
    LET typeName == ClassName(cls) IN
    IF ~contains(t, typeName)
    THEN IF issubclass(cls, tables[t].type)
         THEN Changed([tables EXCEPT ![t].db = (typeName :> cls) @@ @],
                      [TypeName EXCEPT ![cls] = typeName])
         ELSE Refused(fatalErrorInClass("add",
                 "Class is not derived from owner; cannot add to runtime selection table.",
                 {ClassName(cls), ClassName(tables[t].type)}, NoErr))
    ELSE Refused(fatalErrorInClass("add",
            "Subclass already present in selection table, cannot add to selection table.",
            {typeName}, NoErr))

dbAlias(t) == [alias |-> TRUE, of |-> t, content |-> tables[t].db]

\* SelectionTable.db: cp.deepcopy(self.__db), a new dict holding the same classes
db(t) == [alias |-> FALSE, of |-> t, content |-> tables[t].db]

-----------------------------------------------------------------------------
(* Construction from a dictionary                                          *)

\* The dictionaries handed to selector / fromDictionary: none of the entries,
\* the mandatory entry only, and both entries.
Dictionaries ==
    {EmptyMap,
     ("reactants" :> "mixture"),
     ("reactants" :> "mixture") @@ ("oxidizer" :> "N2O")}

\* database.chemistry.specie.Molecules.O2, the default oxidizer
DefaultOxidizer == "O2"

\* BaseClass.fromDictionary, inherited by the classes that do not override it
BaseClass_fromDictionary(cls, dictionary) ==
    IF isabstract(cls)
    THEN Fail(fatalErrorInClass("fromDictionary",
                "Can't instantiate abstract class with abstract methods", {ClassName(cls)}, NoErr))
    ELSE Ok(NoInst)

StoichiometricCombustion_fromDictionaryBase(cls, dictionary) ==
    Ok([type |-> "StoichiometricCombustion", oxidizer |-> DefaultOxidizer])

\* StoichiometricCombustion.fromDictionary
StoichiometricCombustion_fromDictionary(cls, dictionary) ==
    IF "reactants" \notin DOMAIN dictionary
    THEN Fail(fatalErrorInClass("fromDictionary", "Failed construction from dictionary", {},
                Raise("ValueError", "fromDictionary",
                      "Mandatory entry not found in dictionary.", {"reactants"}, {})))
    ELSE LET d == IF "oxidizer" \notin DOMAIN dictionary
                  THEN ("oxidizer" :> DefaultOxidizer) @@ dictionary
                  ELSE dictionary
         IN  Ok([type |-> cls, oxidizer |-> d["oxidizer"]])

\* cls.fromDictionary resolved along the MRO
fromDictionary(cls, dictionary) ==
    IF issubclass(cls, "StoichiometricCombustion")
    THEN StoichiometricCombustion_fromDictionary(cls, dictionary)
    ELSE BaseClass_fromDictionary(cls, dictionary)

\* BaseClass.selector, the try block (lines 71-80)
selectorTry(cls, typeName, dictionary) ==
    IF ~hasSelectionTable(cls)
    THEN Fail(Raise("ValueError", "selector",
                "No run-time selection table available for class", {ClassName(cls)}, {}))
    ELSE LET t == selectionTable(cls).val
             c == check(t, typeName)
             g == getitem(t, typeName)
         IN  IF ~c.ok THEN Fail(c.err)
             ELSE IF ~g.ok THEN Fail(g.err)
             ELSE fromDictionary(g.val, dictionary)

\* BaseClass.selector: the except clause builds its message from
\* cls.selectionTable()[typeName].__name__ before it reports the error.
selector(cls, typeName, dictionary) ==
    LET r == selectorTry(cls, typeName, dictionary) IN
    IF r.ok THEN r
    ELSE LET st == selectionTable(cls) IN
         IF ~st.ok THEN Fail(st.err)
         ELSE LET g == getitem(st.val, typeName) IN
              IF ~g.ok THEN Fail(g.err)
              ELSE Fail(fatalErrorInClass("selector", "Failed constructing instance of type",
                          {ClassName(g.val)}, r.err))

-----------------------------------------------------------------------------
(* Registration                                                            *)

createRuntimeSelectionTableNoCheck(cls) ==
    [ok |-> TRUE, err |-> NoErr,
     classAttrs |-> [classAttrs EXCEPT ![cls] = (AttrName(cls) :> cls) @@ @],
     tables |-> [tables EXCEPT ![cls] = [type |-> cls, db |-> (ClassName(cls) :> cls)]],
     TypeName |-> [TypeName EXCEPT ![cls] = ClassName(cls)]]

\* BaseClass.createRuntimeSelectionTable, with SelectionTable.__init__
createRuntimeSelectionTable(cls) ==
    IF hasSelectionTable(cls)
    THEN [ok |-> FALSE,
          err |-> fatalErrorInClass("createRuntimeSelectionTable",
                    "A selection table is already present for class, cannot generate a new selection table.",
                    {ClassName(cls)}, NoErr),
          classAttrs |-> classAttrs, tables |-> tables, TypeName |-> TypeName]
    ELSE [ok |-> TRUE, err |-> NoErr,
          classAttrs |-> [classAttrs EXCEPT ![cls] = (AttrName(cls) :> cls) @@ @],
          tables |-> [tables EXCEPT ![cls] = [type |-> cls, db |-> (ClassName(cls) :> cls)]],
          TypeName |-> [TypeName EXCEPT ![cls] = ClassName(cls)]]

\* BaseClass.addToRuntimeSelectionTable(cls), called with the positional
\* arguments args after the bound cls: the method takes none.
addToRuntimeSelectionTable(cls, args) ==
    IF Len(args) # 0
    THEN Refused(Raise("TypeError", "addToRuntimeSelectionTable",
            "takes 1 positional argument but more were given", {}, {}))
    ELSE IF getBaseClass(cls) \notin ClassIds
    THEN Refused(Raise("AttributeError", "addToRuntimeSelectionTable",
            "type object has no attribute 'hasSelectionTable'", {getBaseClass(cls)}, {}))
    ELSE IF ~hasSelectionTable(getBaseClass(cls))
    THEN Refused(fatalErrorInClass("addToRuntimeSelectionTable",
            "No run-time selection available for base class",
            {ClassName(getBaseClass(cls))}, NoErr))
    ELSE add(selectionTable(getBaseClass(cls)).val, cls)

-----------------------------------------------------------------------------
(* Exact arithmetic on mole fractions: a fraction is <<numerator,          *)
(* denominator>> in lowest terms with a positive denominator.              *)

\* A call evaluates its argument once, before the body runs: F applied to the
\* value of v
Eager(v, F(_)) == CHOOSE out \in {F(x) : x \in {v}} : TRUE

RECURSIVE Gcd(_, _)
Gcd(a, b) == IF b = 0 THEN a ELSE Gcd(b, a % b)

Abs(a) == IF a < 0 THEN -a ELSE a

Frac(n, d) ==
    LET g == Gcd(Abs(n), Abs(d))
        sgn == IF d < 0 THEN -1 ELSE 1
    IN  <<(sgn * n) \div g, (sgn * d) \div g>>

Zero == <<0, 1>>
One == <<1, 1>>
FAdd(a, b) == Frac(a[1] * b[2] + b[1] * a[2], a[2] * b[2])
FSub(a, b) == Frac(a[1] * b[2] - b[1] * a[2], a[2] * b[2])
FMul(a, b) == Frac(a[1] * b[1], a[2] * b[2])
FDiv(a, b) == Frac(a[1] * b[2], a[2] * b[1])
FLess(a, b) == a[1] * b[2] < b[1] * a[2]

iscloseNever(a, b) == FALSE

\* math.isclose(a, b): on the fractions of the model, which differ by far more
\* than the relative tolerance 1e-09 when they differ at all
isclose(a, b) == a = b

-----------------------------------------------------------------------------
(* Mixture: the species in order of insertion, each with its mole fraction *)

\* The order in which the species of a mixture are listed
SpecieOrder == <<"CH4", "H2", "NH3", "O2", "N2", "CO2", "H2O">>

EmptyMixture == [s \in {} |-> Zero]

\* "specie in mixture"
InMixture(specie, mix) == specie \in DOMAIN mix

\* mixture[specie]["X"]
X(mix, specie) == IF specie \in DOMAIN mix THEN mix[specie] ELSE Zero

\* "for specie in mixture"
SpecieSeq(mix) == SelectSeq(SpecieOrder, LAMBDA s : s \in DOMAIN mix)

\* Mixture([specie], [1])
Pure(specie) == (specie :> One)

\* Mixture.dilute(other, x, "mole"): other enters at mole fraction x
dilute(mix, other, x) ==
    [s \in DOMAIN mix \cup DOMAIN other |->
        FAdd(FMul(FSub(One, x), X(mix, s)), FMul(x, X(other, s)))]

RECURSIVE SumX(_, _)
SumX(mix, S) ==
    IF S = {} THEN Zero
    ELSE LET s == CHOOSE e \in S : TRUE IN FAdd(mix[s], SumX(mix, S \ {s}))

\* Mixture.extract(species): the sub-mixture of the species, renormalised
extract(mix, species) ==
    LET S == {species[i] : i \in 1..Len(species)} \cap DOMAIN mix IN
    [s \in S |-> FDiv(mix[s], SumX(mix, S))]

\* mixtureBlend(mixtures, weights, "mole")
RECURSIVE BlendX(_, _, _, _)
BlendX(mixtures, weights, s, i) ==
    IF i > Len(mixtures) THEN Zero
    ELSE FAdd(FMul(weights[i], X(mixtures[i], s)), BlendX(mixtures, weights, s, i + 1))

mixtureBlend(mixtures, weights) ==
    [s \in UNION {DOMAIN mixtures[i] : i \in 1..Len(mixtures)} |->
        BlendX(mixtures, weights, s, 1)]

\* A mixture of the given whole numbers of moles
FromMoles(n) ==
    LET S == {s \in DOMAIN n : n[s] > 0}
        RECURSIVE Total(_)
        Total(T) == IF T = {} THEN 0
                    ELSE LET s == CHOOSE e \in T : TRUE IN n[s] + Total(T \ {s})
    IN  [s \in S |-> Frac(n[s], Total(S))]

-----------------------------------------------------------------------------
(* The chemistry database                                                  *)

\* database.chemistry.specie.Fuels
Fuels == {"CH4", "H2", "NH3"}

\* StoichiometricCombustion._ReactionType
ReactionType == "StoichiometricReaction"

\* database.chemistry.reactions: CH4 + 2 O2 -> CO2 + 2 H2O, 2 H2 + O2 -> 2 H2O;
\* no oxidation reaction is registered for NH3.
ReactionOrder == <<"CH4-ox", "H2-ox">>

reactions ==
    [StoichiometricReaction |->
        [r \in {"CH4-ox", "H2-ox"} |->
            IF r = "CH4-ox"
            THEN [reactants |-> FromMoles(("CH4" :> 1) @@ ("O2" :> 2)),
                  products |-> FromMoles(("CO2" :> 1) @@ ("H2O" :> 2))]
            ELSE [reactants |-> FromMoles(("H2" :> 2) @@ ("O2" :> 1)),
                  products |-> FromMoles(("H2O" :> 2))]]]

NoReaction == [reactants |-> EmptyMixture, products |-> EmptyMixture]

-----------------------------------------------------------------------------
(* ReactionModel / StoichiometricCombustion                                *)

\* A mixture object held by the model: alias says that it is the very object
\* held as _reactants.
Held(mix) == [alias |-> FALSE, mix |-> mix]
HeldReactants(mix) == [alias |-> TRUE, mix |-> mix]

\* "no argument"
None == [s \in {"None"} |-> Zero]

\* ReactionModel._update(reactants): stores the reactants when they are given
\* and differ by value from the stored ones; returns True when nothing changed.
ReactionModel_update(r) ==
    IF r = None \/ r = reactants
    THEN [upToDate |-> TRUE, reactants |-> reactants]
    ELSE [upToDate |-> FALSE, reactants |-> r]

\* StoichiometricCombustion._updateFuels
updateFuels(r) == SelectSeq(SpecieSeq(r), LAMBDA s : s \in Fuels)

findReactionOfFuel(f, ox) ==
    LET hits == {i \in 1..Len(ReactionOrder) :
                    InMixture(f, reactions[ReactionType][ReactionOrder[i]].reactants)}
    IN  IF hits = {} THEN 0 ELSE CHOOSE i \in hits : \A j \in hits : i <= j

\* The first reaction of the category whose reactants hold the fuel and the
\* oxidizer (lines 170-175); 0 when there is none
findReaction(f, ox) ==
    LET hits == {i \in 1..Len(ReactionOrder) :
                    /\ InMixture(f, reactions[ReactionType][ReactionOrder[i]].reactants)
                    /\ InMixture(ox, reactions[ReactionType][ReactionOrder[i]].reactants)}
    IN  IF hits = {} THEN 0 ELSE CHOOSE i \in hits : \A j \in hits : i <= j

\* The fuels, in order, up to the first one without a reaction (line 176)
missingReaction(fs, ox) ==
    {i \in 1..Len(fs) : findReaction(fs[i], ox) = 0}

\* oxReactions (lines 167-177)
oxReactionsOf(fs, ox) ==
    [f \in {fs[i] : i \in 1..Len(fs)} |->
        reactions[ReactionType][ReactionOrder[findReaction(f, ox)]]]

\* Lines 193-202: the reaction takes place in the mixture
active(react, r, ox, fs) ==
    /\ \A sR \in DOMAIN react.reactants : InMixture(sR, r)
    /\ InMixture(ox, react.reactants)
    /\ \E i \in 1..Len(fs) : InMixture(fs[i], react.reactants)

\* Lines 186-209: an active reaction consumes the specie
foundActive(specie, oxReactions, r, ox, fs) ==
    \E f \in DOMAIN oxReactions :
        /\ InMixture(specie, oxReactions[f].reactants)
        /\ active(oxReactions[f], r, ox, fs)

\* A partition under construction: none = the mixture is still None
NonePart == [none |-> TRUE, mix |-> EmptyMixture, x |-> Zero]

growEven(part, specie, x) ==
    [none |-> FALSE,
     mix |-> IF part.none THEN Pure(specie)
             ELSE dilute(part.mix, Pure(specie), <<1, 2>>),
     x |-> FAdd(part.x, x)]

\* Lines 217-222 and 229-233: the specie enters the partition at its share of
\* the mole fraction gathered so far
grow(part, specie, x) ==
    [none |-> FALSE,
     mix |-> IF part.none THEN Pure(specie)
             ELSE dilute(part.mix, Pure(specie), FDiv(x, FAdd(part.x, x))),
     x |-> FAdd(part.x, x)]

\* Lines 184-222: reactingMix and xReact
RECURSIVE reactingLoop(_, _, _, _, _, _)
reactingLoop(species, part, oxReactions, r, ox, fs) ==
    IF species = <<>> THEN part
    ELSE Eager(IF foundActive(Head(species), oxReactions, r, ox, fs)
               THEN grow(part, Head(species), r[Head(species)])
               ELSE part,
               LAMBDA next : reactingLoop(Tail(species), next, oxReactions, r, ox, fs))

\* Lines 225-233: inerts and xInert, given a reacting mixture that is not None
RECURSIVE inertLoop(_, _, _, _)
inertLoop(species, part, reactingMix, r) ==
    IF species = <<>> THEN part
    ELSE Eager(IF ~InMixture(Head(species), reactingMix)
               THEN grow(part, Head(species), r[Head(species)])
               ELSE part,
               LAMBDA next : inertLoop(Tail(species), next, reactingMix, r))

RECURSIVE SumSeq(_)
SumSeq(q) == IF q = <<>> THEN Zero ELSE FAdd(Head(q), SumSeq(Tail(q)))

xStoichUnnormalised(d, g) == [i \in 1..Len(d) |-> FDiv(g[i], d[i])]

\* Lines 284-288: the weights c_i that solve [M] x = v, where row i of M reads
\* d_i c_i - g_i f = 0 and the last row reads c_1 + ... + c_n = 1
xStoichOf(d, g) ==
    LET ratio == [i \in 1..Len(d) |-> FDiv(g[i], d[i])]
    IN  [i \in 1..Len(d) |-> FDiv(ratio[i], SumSeq(ratio))]

matrixMOxidizerShare(fs, oxReactions, fuelMix) ==
    [i \in 1..(Len(fs) + 1) |-> [j \in 1..(Len(fs) + 1) |->
        IF i <= Len(fs)
        THEN IF j = i THEN FSub(One, X(oxReactions[fs[i]].reactants, fs[i]))
             ELSE IF j = Len(fs) + 1 THEN FSub(Zero, X(fuelMix, fs[i]))
             ELSE Zero
        ELSE IF j <= Len(fs) THEN One ELSE Zero]]

\* Lines 284-286: M[i][j], row i and column j of the matrix. np.diag puts the
\* fraction of fuel i in the reactants of its reaction on the diagonal, the
\* first np.c_ appends the column of the fuel fractions of the fuel mixture
\* with the sign changed, the second appends the row of ones closed by zero.
matrixM(fs, oxReactions, fuelMix) ==
    [i \in 1..(Len(fs) + 1) |-> [j \in 1..(Len(fs) + 1) |->
        IF i <= Len(fs)
        THEN IF j = i THEN X(oxReactions[fs[i]].reactants, fs[i])
             ELSE IF j = Len(fs) + 1 THEN FSub(Zero, X(fuelMix, fs[i]))
             ELSE Zero
        ELSE IF j <= Len(fs) THEN One ELSE Zero]]

\* Line 287: the right-hand side
vectorV(n) == [i \in 1..(n + 1) |-> IF i <= n THEN Zero ELSE One]

\* Line 288: np.linalg.solve(M, v) without its last entry, for a matrix of
\* the shape built above and the right-hand side (0, ..., 0, 1)
solve(M, v) ==
    xStoichOf([i \in 1..(Len(M) - 1) |-> M[i][i]],
              [i \in 1..(Len(M) - 1) |-> FSub(Zero, M[i][Len(M)])])

\* Lines 282-310: the fuel mixture, the weights of the reactions, and the
\* reactants and products of the reactions blended at those weights
stoichBlend(r, fs, oxReactions) ==
    Eager(extract(r, updateFuels(r)), LAMBDA fuelMix :
    Eager(solve(matrixM(fs, oxReactions, fuelMix), vectorV(Len(fs))), LAMBDA xStoich :
        [fuelMix |-> fuelMix, xStoich |-> xStoich,
         stoichReactingMix |->
            mixtureBlend([i \in 1..Len(fs) |-> oxReactions[fs[i]].reactants], xStoich),
         prods |->
            mixtureBlend([i \in 1..Len(fs) |-> oxReactions[fs[i]].products], xStoich)]))

balanceSwapped(r, ox, fs, oxReactions, reacting, inerts) ==
    LET b == stoichBlend(r, fs, oxReactions)
        xOxS == X(b.stoichReactingMix, ox)
        xOx == X(reacting.mix, ox)
        withExcess ==
            IF ~isclose(xOxS, xOx)
            THEN IF FLess(xOxS, xOx)
                 THEN dilute(b.prods, b.fuelMix, FSub(xOx, xOxS))
                 ELSE dilute(b.prods, Pure(ox), FSub(xOxS, xOx))
            ELSE b.prods
    IN  IF ~inerts.none THEN dilute(withExcess, inerts.mix, inerts.x) ELSE withExcess

balanceNoExcess(r, ox, fs, oxReactions, reacting, inerts) ==
    LET b == stoichBlend(r, fs, oxReactions)
    IN  IF ~inerts.none THEN dilute(b.prods, inerts.mix, inerts.x) ELSE b.prods

\* Lines 282-334: the products of a mixture with a reacting part
balance(r, ox, fs, oxReactions, reacting, inerts) ==
    Eager(stoichBlend(r, fs, oxReactions), LAMBDA b :
    Eager(<<X(b.stoichReactingMix, ox), X(reacting.mix, ox)>>, LAMBDA xOx :
    Eager(IF ~isclose(xOx[1], xOx[2])
          THEN dilute(b.prods,
                      IF FLess(xOx[1], xOx[2]) THEN Pure(ox) ELSE b.fuelMix,
                      IF FLess(xOx[1], xOx[2])
                      THEN FSub(xOx[2], xOx[1]) ELSE FSub(xOx[1], xOx[2]))
          ELSE b.prods, LAMBDA withExcess :
        IF ~inerts.none THEN dilute(withExcess, inerts.mix, inerts.x) ELSE withExcess)))

\* The mixtures handed to update: whole numbers of moles of the species,
\* MaxMoles moles in all at most
MaxMoles == 3

InputSpecies == {"CH4", "H2", "NH3", "O2", "N2"}

RECURSIVE Moles(_)
Moles(n) ==
    IF DOMAIN n = {} THEN 0
    ELSE LET s == CHOOSE e \in DOMAIN n : TRUE
         IN  n[s] + Moles([t \in DOMAIN n \ {s} |-> n[t]])

\* Reactants with two fuels in stoichiometric and in lean proportion,
\* reactants diluted with recirculated gas, and a lean mixture of CH4 and O2
BlendedMixtures ==
    {FromMoles(("CH4" :> 1) @@ ("O2" :> 3)),
     FromMoles(("CH4" :> 1) @@ ("H2" :> 2) @@ ("O2" :> 3)),
     FromMoles(("CH4" :> 1) @@ ("H2" :> 1) @@ ("O2" :> 4) @@ ("N2" :> 2)),
     FromMoles(("H2" :> 2) @@ ("O2" :> 1) @@ ("N2" :> 2) @@ ("CO2" :> 1)),
     FromMoles(("CH4" :> 1) @@ ("O2" :> 3) @@ ("N2" :> 3) @@ ("CO2" :> 1))}

Mixtures ==
    {FromMoles(n) : n \in {m \in [InputSpecies -> 0..MaxMoles] : Moles(m) <= MaxMoles}}
        \cup BlendedMixtures

\* The oxidizers a model is constructed with
Oxidizers == {"O2", "N2O"}

\* What lines 155-340 of _update do with the stored reactants r: the value
\* returned or the exception raised, and the products assigned (if any)
Computed(ret, err, assigned, p, fs) ==
    [ret |-> ret, err |-> err, assigned |-> assigned, products |-> p, fuels |-> fs]

compute(r, ox) ==
    Eager(updateFuels(r), LAMBDA fs :
    IF missingReaction(fs, ox) # {}
    THEN Computed("raised",
            Raise("ValueError", "_update",
                  "Oxidation reaction not found in database for the couple (fuel, oxidizer)",
                  {fs[CHOOSE i \in missingReaction(fs, ox) :
                        \A j \in missingReaction(fs, ox) : i <= j], ox}, {}),
            FALSE, Held(EmptyMixture), fs)
    ELSE
    Eager(oxReactionsOf(fs, ox), LAMBDA oxReactions :
    Eager(reactingLoop(SpecieSeq(r), NonePart, oxReactions, r, ox, fs), LAMBDA reacting :
    IF reacting.none /\ SpecieSeq(r) # <<>>
    THEN Computed("raised",
            Raise("TypeError", "_update",
                  "argument of type 'NoneType' is not iterable", {}, {}),
            FALSE, Held(EmptyMixture), fs)
    ELSE IF reacting.none
    THEN Computed("self", NoErr, TRUE, HeldReactants(r), fs)
    ELSE
    Eager(inertLoop(SpecieSeq(r), NonePart, reacting.mix, r), LAMBDA inerts :
        Computed("False", NoErr, TRUE,
                 Held(balance(r, ox, fs, oxReactions, reacting, inerts)), fs)))))

\* compute, tabulated over the mixtures and oxidizers of the model
Computations == [ox \in Oxidizers |-> [r \in Mixtures |-> compute(r, ox)]]

OutcomeDefaultOxidizer(ret, err, r, p, fs, computed) ==
    [ret |-> ret, err |-> err, oxidizer |-> DefaultOxidizer, reactants |-> r,
     products |-> p, fuels |-> fs, computed |-> computed]

\* The outcome of _update: what it returned or raised, and the attributes
\* after; no statement of the method assigns _oxidizer
Outcome(ret, err, r, p, fs, computed) ==
    [ret |-> ret, err |-> err, oxidizer |-> oxidizer, reactants |-> r,
     products |-> p, fuels |-> fs, computed |-> computed]

updateAlways(arg) ==
    LET base == ReactionModel_update(arg)
        c == Computations[oxidizer][base.reactants]
    IN  Outcome(c.ret, c.err, base.reactants,
                IF c.assigned THEN c.products ELSE Held(products.mix), c.fuels, TRUE)

\* StoichiometricCombustion._update
update(arg) ==
    LET base == ReactionModel_update(arg) IN
    IF base.upToDate
    THEN Outcome("True", NoErr, reactants, products, fuels, FALSE)
    ELSE LET c == Computations[oxidizer][base.reactants] IN
         Outcome(c.ret, c.err, base.reactants,
                 IF c.assigned THEN c.products ELSE Held(products.mix), c.fuels, TRUE)

-----------------------------------------------------------------------------
(* Dictionary (an OrderedDict with OpenFOAM-like methods) and the parts of *)
(* EngineModel that read and write dictionaries. D is the content of a     *)
(* Dictionary object: a function from the keys stored to their values.     *)

\* The Dictionary objects of an EngineModel
DictNames == {"combustionProperties", "info"}

MaxTime == 3

\* Crank angles of the loaded data and values of info["time"]
Times == 0..MaxTime

\* The keys and values a caller stores in each dictionary
KeysOf(d) ==
    IF d = "info" THEN {"time"} ELSE {"EgrModel", "CombustionModel"}

ValuesOf(d) ==
    IF d = "info" THEN Times ELSE {"ExternalEgr", "NoCombustion"}

Returned(v) == [ok |-> TRUE, val |-> v, err |-> NoErr]
Raised(e) == [ok |-> FALSE, val |-> "None", err |-> e]

\* Dictionary.__setitem__: super(self, self) has an instance where a type is
\* required; the TypeError is caught and reported as a fatal error, and
\* nothing is stored.
Dictionary_setitem(D, key, value) ==
    [ok |-> FALSE, dict |-> D,
     err |-> fatalErrorInClass("__setitem__", "Error setting Dictionary item", {},
                Raise("TypeError", "__setitem__", "super() argument 1 must be a type", {}, {}))]

\* OrderedDict.__setitem__(self, key, value), the store of the base class
OrderedDict_setitem(D, key, value) ==
    [ok |-> TRUE, dict |-> (key :> value) @@ D, err |-> NoErr]

\* Dictionary.lookup
Dictionary_lookup(D, entryName) ==
    IF entryName \notin DOMAIN D
    THEN Raised(Raise("FatalError", "lookup", "Entry not found in Dictionary",
                      {entryName}, DOMAIN D))
    ELSE Returned(D[entryName])

\* Dictionary.lookupOrDefault, called on an instance as
\* D.lookupOrDefault(entryName, default) or with fatal given by keyword. The
\* function is declared without self: the instance is bound to the first
\* parameter, so a keyword fatal is a second value for the third parameter
\* (TypeError); otherwise the body evaluates cls, which is not defined, and the
\* handler of that NameError evaluates self, which is not defined either.
Dictionary_lookupOrDefault(D, entryName, default, fatalByKeyword) ==
    IF fatalByKeyword
    THEN Raised(Raise("TypeError", "lookupOrDefault",
                      "got multiple values for argument 'fatal'", {}, {}))
    ELSE Raised(Raise("NameError", "lookupOrDefault",
                      "name 'self' is not defined", {}, {}))

\* The EgrModel attribute: not set, the copy of Submodels["EgrModel"] updated
\* with the cylinder mixture, or the model selected by name
NoEgrModel == "None"
DefaultEgrModel == "Submodels.EgrModel"

\* EngineModel._constructEgrModel(combustionProperties); egr is the EgrModel
\* attribute before the call. Without an "EgrModel" entry the default is
\* assigned, and the selection that follows reads the local egrModelType,
\* which only the other branch binds.
constructEgrModel(D, egr) ==
    IF "EgrModel" \in DOMAIN D
    THEN Eager(Dictionary_lookupOrDefault(D, D["EgrModel"] \o "Dict", "Dictionary()", FALSE),
               LAMBDA egrModelDict :
                  IF ~egrModelDict.ok
                  THEN [ok |-> FALSE, EgrModel |-> egr, err |-> egrModelDict.err]
                  ELSE [ok |-> TRUE, EgrModel |-> D["EgrModel"], err |-> NoErr])
    ELSE [ok |-> FALSE, EgrModel |-> DefaultEgrModel,
          err |-> Raise("UnboundLocalError", "_constructEgrModel",
                        "local variable 'egrModelType' referenced before assignment",
                        {}, {})]

\* The crank angles of the data in increasing order, as self.time(data["CA"])
\* yields them
RECURSIVE Sorted(_)
Sorted(S) ==
    IF S = {} THEN <<>>
    ELSE Eager(CHOOSE t \in S : \A u \in S : t <= u,
               LAMBDA t : <<t>> \o Sorted(S \ {t}))

\* The time loop of EngineModel.process: a step later than info["time"] is
\* recorded with info["time"] = t and then updated with self._update()
RECURSIVE timeLoop(_, _, _)
timeLoop(steps, info, done) ==
    IF steps = <<>>
    THEN [ok |-> TRUE, info |-> info, updated |-> done, err |-> NoErr]
    ELSE IF Head(steps) > info["time"]
         THEN Eager(Dictionary_setitem(info, "time", Head(steps)),
                    LAMBDA s :
                       IF ~s.ok
                       THEN [ok |-> FALSE, info |-> s.dict, updated |-> done,
                             err |-> fatalErrorInClass("process",
                                        "Failed processing data for engine model", {}, s.err)]
                       ELSE timeLoop(Tail(steps), s.dict, Append(done, Head(steps))))
         ELSE timeLoop(Tail(steps), info, done)

\* EngineModel.process: info["time"] is read before the loop
process(info, angles, done) ==
    IF "time" \notin DOMAIN info
    THEN [ok |-> FALSE, info |-> info, updated |-> done,
          err |-> fatalErrorInClass("process", "Failed processing data for engine model", {},
                     Raise("KeyError", "process", "time", {"time"}, {}))]
    ELSE timeLoop(Sorted(angles), info, done)

-----------------------------------------------------------------------------
(* State after the classes are defined and before any table is created     *)

NoListing == [alias |-> FALSE, of |-> "None", content |-> EmptyMap, edits |-> 0]

Call(op, cls, arg, ok, ret, err) ==
    [op |-> op, cls |-> cls, arg |-> arg, dict |-> EmptyMap, ok |-> ok, ret |-> ret, err |-> err]

InitRegistry ==
    /\ classAttrs = [c \in ClassIds |-> EmptyMap]
    /\ tables = [c \in ClassIds |-> NoTable]
    /\ TypeName = [c \in ClassIds |-> ""]
    /\ listing = NoListing
    /\ last = Call("init", "None", "", TRUE, NoInst, NoErr)

\* A model constructed on the empty mixture, before its first update
InitModel(ox) ==
    /\ oxidizer = ox
    /\ reactants = EmptyMixture
    /\ products = Held(EmptyMixture)
    /\ fuels = <<>>
    /\ upd = [arg |-> None, ret |-> "init", err |-> NoErr, computed |-> FALSE]

\* An engine model whose dictionaries are empty and whose data are not loaded
InitEngine ==
    /\ dicts = [d \in DictNames |-> EmptyMap]
    /\ CA = {}
    /\ EgrModel = NoEgrModel
    /\ updated = <<>>
    /\ eng = [op |-> "init", dict |-> "None", key |-> "None", arg |-> "None",
              ok |-> TRUE, val |-> "None", err |-> NoErr]

Init == InitRegistry /\ InitModel(DefaultOxidizer) /\ InitEngine

InitCombustion == InitRegistry /\ InitEngine /\ \E ox \in Oxidizers : InitModel(ox)

-----------------------------------------------------------------------------
(* The calls                                                               *)

\* cls.createRuntimeSelectionTable()
CreateRuntimeSelectionTable(cls) ==
    LET r == createRuntimeSelectionTable(cls) IN
    /\ classAttrs' = r.classAttrs
    /\ tables' = r.tables
    /\ TypeName' = r.TypeName
    /\ last' = Call("createRuntimeSelectionTable", cls, "", r.ok, NoInst, r.err)
    /\ UNCHANGED <<listing, combustionVars, engineVars>>

\* cls.addToRuntimeSelectionTable()
AddToRuntimeSelectionTable(cls) ==
    LET r == addToRuntimeSelectionTable(cls, <<>>) IN
    /\ tables' = r.tables
    /\ TypeName' = r.TypeName
    /\ last' = Call("addToRuntimeSelectionTable", cls, "", r.ok, NoInst, r.err)
    /\ UNCHANGED <<classAttrs, listing, combustionVars, engineVars>>

\* base.selectionTable().add(cls)
SelectionTableAdd(base, cls) ==
    /\ hasSelectionTable(base)
    /\ LET r == add(selectionTable(base).val, cls) IN
        /\ tables' = r.tables
        /\ TypeName' = r.TypeName
        /\ last' = Call("add", base, cls, r.ok, NoInst, r.err)
    /\ UNCHANGED <<classAttrs, listing, combustionVars, engineVars>>

\* cls.selector(typeName, dictionary)
Selector(cls, typeName, dictionary) ==
    LET r == selector(cls, typeName, dictionary) IN
    /\ last' = [Call("selector", cls, typeName, r.ok, r.val, r.err) EXCEPT !.dict = dictionary]
    /\ UNCHANGED <<classAttrs, tables, TypeName, listing, combustionVars, engineVars>>

\* The statement that ends StoichiometricCombustion.py:
\* ReactionModel.addToRuntimeSelectionTable(StoichiometricCombustion)
RegisterStoichiometricCombustion ==
    LET r == addToRuntimeSelectionTable("ReactionModel", <<"StoichiometricCombustion">>) IN
    /\ tables' = r.tables
    /\ TypeName' = r.TypeName
    /\ last' = Call("StoichiometricCombustion.py", "ReactionModel",
                    "StoichiometricCombustion", r.ok, NoInst, r.err)
    /\ UNCHANGED <<classAttrs, listing, combustionVars, engineVars>>

\* listing = base.selectionTable().db
GetDb(base) ==
    /\ hasSelectionTable(base)
    /\ LET d == db(selectionTable(base).val) IN
        /\ listing' = [alias |-> d.alias, of |-> d.of, content |-> d.content, edits |-> 0]
        /\ last' = Call("db", base, "", TRUE, NoInst, NoErr)
    /\ UNCHANGED <<classAttrs, tables, TypeName, combustionVars, engineVars>>

\* The caller's changes of the mapping it was handed: a dict shared with the
\* table would change with it.
MaxEdits == 1

\* The classes a caller stores in the mapping
EditClasses == {"ReactionModel", "UserCombustion"}

SetListing(content, op, name) ==
    /\ listing.of # "None"
    /\ listing.edits < MaxEdits
    /\ listing' = [listing EXCEPT !.content = content, !.edits = @ + 1]
    /\ tables' = IF listing.alias
                 THEN [tables EXCEPT ![listing.of].db = content]
                 ELSE tables
    /\ last' = Call(op, listing.of, name, TRUE, NoInst, NoErr)
    /\ UNCHANGED <<classAttrs, TypeName, combustionVars, engineVars>>

\* listing[name] = cls
ListingSetItem(name, cls) ==
    SetListing((name :> cls) @@ listing.content, "listing.__setitem__", name)

\* del listing[name]
ListingDelItem(name) ==
    /\ name \in DOMAIN listing.content
    /\ SetListing([n \in DOMAIN listing.content \ {name} |-> listing.content[n]],
                  "listing.__delitem__", name)

\* model.update(reactants=arg), or model.update() when arg is None
Update(arg) ==
    LET o == update(arg) IN
    /\ reactants' = o.reactants
    /\ products' = o.products
    /\ fuels' = o.fuels
    /\ oxidizer' = o.oxidizer
    /\ upd' = [arg |-> arg, ret |-> o.ret, err |-> o.err, computed |-> o.computed]
    /\ UNCHANGED <<registryVars, engineVars>>

\* model.fuel: the property updates the list of fuels and extracts them
ReadFuel ==
    /\ fuels' = updateFuels(reactants)
    /\ upd' = [arg |-> None, ret |-> "fuel", err |-> NoErr, computed |-> FALSE]
    /\ UNCHANGED <<oxidizer, reactants, products, registryVars, engineVars>>

\* The species with which, and the fractions at which, a caller dilutes the
\* reactants
Diluents == {"O2", "N2"}
DiluteFractions == {<<1, 2>>, One}

\* model.reactants.dilute(specie, x, "mole"): the Mixture object held as
\* _reactants is changed in place, and the products change with it when they
\* are that very object. The mixtures reached are those update accepts.
DiluteReactants(specie, x) ==
    /\ dilute(reactants, Pure(specie), x) \in Mixtures
    /\ reactants' = dilute(reactants, Pure(specie), x)
    /\ products' = IF products.alias THEN HeldReactants(reactants') ELSE products
    /\ upd' = [arg |-> None, ret |-> "dilute", err |-> NoErr, computed |-> FALSE]
    /\ UNCHANGED <<oxidizer, fuels, registryVars, engineVars>>

EngineCall(op, d, key, arg, r) ==
    [op |-> op, dict |-> d, key |-> key, arg |-> arg, ok |-> r.ok, val |-> r.val,
     err |-> r.err]

\* dicts[d][key] = value
SetItem(d, key, value) ==
    LET r == Dictionary_setitem(dicts[d], key, value) IN
    /\ dicts' = [dicts EXCEPT ![d] = r.dict]
    /\ eng' = EngineCall("__setitem__", d, key, value, [ok |-> r.ok, val |-> "None", err |-> r.err])
    /\ UNCHANGED <<CA, EgrModel, updated, registryVars, combustionVars>>

\* OrderedDict.__setitem__(dicts[d], key, value)
BaseSetItem(d, key, value) ==
    LET r == OrderedDict_setitem(dicts[d], key, value) IN
    /\ dicts' = [dicts EXCEPT ![d] = r.dict]
    /\ eng' = EngineCall("OrderedDict.__setitem__", d, key, value,
                         [ok |-> r.ok, val |-> "None", err |-> r.err])
    /\ UNCHANGED <<CA, EgrModel, updated, registryVars, combustionVars>>

\* dicts[d].lookup(key)
Lookup(d, key) ==
    /\ eng' = EngineCall("lookup", d, key, "None", Dictionary_lookup(dicts[d], key))
    /\ UNCHANGED <<dicts, CA, EgrModel, updated, registryVars, combustionVars>>

\* dicts[d].lookupOrDefault(key, default), or with fatal=False as well
LookupOrDefault(d, key, default, fatalByKeyword) ==
    /\ eng' = EngineCall("lookupOrDefault", d, key, default,
                         Dictionary_lookupOrDefault(dicts[d], key, default, fatalByKeyword))
    /\ UNCHANGED <<dicts, CA, EgrModel, updated, registryVars, combustionVars>>

\* self._constructEgrModel(self.combustionProperties)
ConstructEgrModel ==
    LET r == constructEgrModel(dicts["combustionProperties"], EgrModel) IN
    /\ EgrModel' = r.EgrModel
    /\ eng' = EngineCall("_constructEgrModel", "combustionProperties", "EgrModel", "None",
                         [ok |-> r.ok, val |-> "None", err |-> r.err])
    /\ UNCHANGED <<dicts, CA, updated, registryVars, combustionVars>>

\* The data of the engine model are replaced by data with crank angles S
SetData(S) ==
    /\ CA' = S
    /\ eng' = EngineCall("data", "None", "CA", "None", Returned("None"))
    /\ UNCHANGED <<dicts, EgrModel, updated, registryVars, combustionVars>>

\* self.process()
Process ==
    LET r == process(dicts["info"], CA, updated) IN
    /\ dicts' = [dicts EXCEPT !["info"] = r.info]
    /\ updated' = r.updated
    /\ eng' = EngineCall("process", "info", "time", "None",
                         [ok |-> r.ok, val |-> "None", err |-> r.err])
    /\ UNCHANGED <<CA, EgrModel, registryVars, combustionVars>>

-----------------------------------------------------------------------------
(* Specifications                                                          *)

\* The registry: creating tables and registering classes
Next ==
    \/ \E cls \in TableOwners : CreateRuntimeSelectionTable(cls)
    \/ \E cls \in ClassIds : AddToRuntimeSelectionTable(cls)
    \/ \E base \in TableOwners, cls \in ClassIds : SelectionTableAdd(base, cls)
    \/ RegisterStoichiometricCombustion

Spec == Init /\ [][Next]_vars

\* The registry and construction by name
NextSelector ==
    \/ \E cls \in TableOwners : CreateRuntimeSelectionTable(cls)
    \/ \E cls \in ClassIds : AddToRuntimeSelectionTable(cls)
    \/ \E cls \in TableOwners, typeName \in TypeNames, dictionary \in Dictionaries :
          Selector(cls, typeName, dictionary)

SpecSelector == Init /\ [][NextSelector]_vars

\* The registry and the listings handed out by SelectionTable.db
NextListing ==
    \/ \E cls \in TableOwners : CreateRuntimeSelectionTable(cls)
    \/ \E cls \in ClassIds : AddToRuntimeSelectionTable(cls)
    \/ \E base \in TableOwners : GetDb(base)
    \/ \E name \in TypeNames, cls \in EditClasses : ListingSetItem(name, cls)
    \/ \E name \in TypeNames : ListingDelItem(name)

SpecListing == Init /\ [][NextListing]_vars

\* One StoichiometricCombustion model and its updates
NextCombustion ==
    \/ \E arg \in Mixtures \cup {None} : Update(arg)
    \/ ReadFuel

SpecCombustion == InitCombustion /\ [][NextCombustion]_vars

\* One StoichiometricCombustion model whose reactants are also changed in place
NextInPlace ==
    \/ \E arg \in Mixtures \cup {None} : Update(arg)
    \/ ReadFuel
    \/ \E specie \in Diluents, x \in DiluteFractions : DiluteReactants(specie, x)

SpecInPlace == InitCombustion /\ [][NextInPlace]_vars

\* The dictionaries of one engine model, its EGR model and its time loop
NextEngine ==
    \/ \E d \in DictNames : \E key \in KeysOf(d), value \in ValuesOf(d) :
          SetItem(d, key, value)
    \/ \E d \in DictNames : \E key \in KeysOf(d), value \in ValuesOf(d) :
          BaseSetItem(d, key, value)
    \/ \E d \in DictNames : \E key \in KeysOf(d) : Lookup(d, key)
    \/ \E d \in DictNames : \E key \in KeysOf(d), default \in ValuesOf(d),
             fatalByKeyword \in BOOLEAN :
          LookupOrDefault(d, key, default, fatalByKeyword)
    \/ ConstructEgrModel
    \/ \E S \in SUBSET (Times \ {0}) : SetData(S)
    \/ Process

SpecEngine == Init /\ [][NextEngine]_vars

-----------------------------------------------------------------------------
(* Properties of the registry                                              *)

\* The dict of the table that cls.selectionTable() returns
TableDb(cls) == tables[getSelectionTableAttr(cls)].db

\* C1: constructing by the name of a registered concrete type C calls
\* C.fromDictionary: with a dictionary C accepts, selector returns an instance
\* of exactly C, and it never returns an instance of any other type.
C1_RegistryRoundTrip ==
    (/\ last.op = "selector"
     /\ tables[last.cls] # NoTable
     /\ last.arg \in DOMAIN TableDb(last.cls)
     /\ ~isabstract(TableDb(last.cls)[last.arg]))
    => LET C == TableDb(last.cls)[last.arg] IN
        /\ ClassName(C) = last.arg
        /\ "reactants" \in DOMAIN last.dict => last.ok
        /\ last.ok => last.ret.type = C

C1_Witness ==
    /\ last.op = "selector"
    /\ last.cls = "StoichiometricCombustion"
    /\ last.arg = "UserCombustion"
    /\ last.ok
    /\ last.ret.type = "UserCombustion"
    /\ last.ret.oxidizer = "N2O"

\* C2: selector with a name that is not in the table fails with an error that
\* names the missing type and lists the names in the table.
C2_UnregisteredNameReported ==
    (/\ last.op = "selector"
     /\ tables[last.cls] # NoTable
     /\ last.arg \notin DOMAIN TableDb(last.cls))
    => /\ ~last.ok
       /\ last.ret = NoInst
       /\ last.arg \in last.err.names
       /\ last.err.lists = DOMAIN TableDb(last.cls)

\* The table a registration call targets, and the class it registers
IsRegistration(call) == call.op \in {"add", "addToRuntimeSelectionTable"}
RegisteredClass(call) == IF call.op = "add" THEN call.arg ELSE call.cls
TargetTable(call) == IF call.op = "add" THEN call.cls ELSE Bases[call.cls]

\* C3: registering a type whose name is already in the target table fails and
\* leaves every table as it was.
C3_NameCollisionRejected ==
    [][(/\ IsRegistration(last')
        /\ TargetTable(last') \in ClassIds
        /\ tables[TargetTable(last')] # NoTable
        /\ ClassName(RegisteredClass(last')) \in DOMAIN tables[TargetTable(last')].db)
       => (~last'.ok /\ tables' = tables)]_vars

C3_Witness ==
    /\ last.op = "add"
    /\ ~last.ok
    /\ ClassName(last.arg) \in DOMAIN tables[last.cls].db
    /\ tables[last.cls].db[ClassName(last.arg)] # last.arg

\* C4: createRuntimeSelectionTable on a class that has a table fails and
\* leaves the table and its entries as they were.
C4_NoSecondTable ==
    [][(last'.op = "createRuntimeSelectionTable" /\ tables[last'.cls] # NoTable)
       => (~last'.ok /\ tables' = tables /\ classAttrs' = classAttrs)]_vars

C4_Witness ==
    /\ last.op = "createRuntimeSelectionTable"
    /\ ~last.ok
    /\ Cardinality(DOMAIN tables[last.cls].db) >= 2

\* C5: every table holds its owner under the owner's name, every entry is the
\* owner or a subclass of it under its own class name, and adding a class that
\* is not a subclass of the owner fails and changes no table.
C5_TableInv ==
    \A c \in ClassIds :
        tables[c] # NoTable =>
            /\ tables[c].type = c
            /\ ClassName(c) \in DOMAIN tables[c].db
            /\ tables[c].db[ClassName(c)] = c
            /\ \A n \in DOMAIN tables[c].db :
                  /\ issubclass(tables[c].db[n], c)
                  /\ ClassName(tables[c].db[n]) = n

C5_EntriesAreSubtypes ==
    /\ []C5_TableInv
    /\ [][(/\ last'.op = "add"
           /\ ~issubclass(last'.arg, last'.cls))
          => (~last'.ok /\ tables' = tables)]_vars

C5_Witness ==
    /\ last.op = "add"
    /\ ~last.ok
    /\ ~issubclass(last.arg, last.cls)
    /\ ClassName(last.arg) \notin DOMAIN tables[last.cls].db
    /\ Cardinality(DOMAIN tables[last.cls].db) >= 2

C8_DbIsACopy ==
    [][last'.op \in {"listing.__setitem__", "listing.__delitem__"}
       => tables' = tables]_vars

C8_Witness ==
    /\ last.op = "listing.__setitem__"
    /\ last.arg \in DOMAIN tables[listing.of].db
    /\ listing.content[last.arg] # tables[listing.of].db[last.arg]

\* C9: once the registration statement of StoichiometricCombustion.py has run,
\* ReactionModel's table maps "StoichiometricCombustion" to the class.
C9_RegisteredAtDefinition ==
    (last.op = "StoichiometricCombustion.py" /\ tables["ReactionModel"] # NoTable)
    => /\ "StoichiometricCombustion" \in DOMAIN tables["ReactionModel"].db
       /\ tables["ReactionModel"].db["StoichiometricCombustion"] = "StoichiometricCombustion"

-----------------------------------------------------------------------------
(* Properties of StoichiometricCombustion                                  *)

\* No specie of the stored reactants is consumed by an active reaction: every
\* fuel has its oxidation reaction, and the loop of lines 184-222 leaves
\* reactingMix at None.
NothingReacts ==
    /\ missingReaction(fuels, oxidizer) = {}
    /\ reactingLoop(SpecieSeq(reactants), NonePart, oxReactionsOf(fuels, oxidizer),
                    reactants, oxidizer, fuels).none

\* C10: when an update recomputes the products and no specie of the reactants
\* is reacting (a non-empty mixture without fuels, or one with a fuel and
\* without the oxidizer), _update raises no error and the products have the
\* species and the mole fractions of the reactants.
C10_NoReactionPassthrough ==
    (upd.computed /\ NothingReacts)
    => (upd.ret # "raised" /\ products.mix = reactants)

\* C11: an update that recomputes the products for an empty reactants mixture
\* raises an error instead of assigning a products mixture.
C11_EmptyReactantsFatal ==
    (upd.computed /\ reactants = EmptyMixture) => upd.ret = "raised"

\* The fuels of the stored reactants for which the database has no reaction of
\* the category with both the fuel and the oxidizer among its reactants
UnmatchedFuels ==
    {f \in Fuels \cap DOMAIN reactants :
        \A n \in DOMAIN reactions[ReactionType] :
            ~(/\ InMixture(f, reactions[ReactionType][n].reactants)
              /\ InMixture(oxidizer, reactions[ReactionType][n].reactants))}

\* C12: when a fuel of the reactants has no oxidation reaction with the
\* configured oxidizer in the database, the update that recomputes the products
\* fails with a ValueError that names such a fuel and the oxidizer, whether or
\* not the oxidizer is in the mixture and whatever the other fuels are.
C12_MissingReactionFatal ==
    (upd.computed /\ UnmatchedFuels # {})
    => /\ upd.ret = "raised"
       /\ upd.err.kind = "ValueError"
       /\ oxidizer \in upd.err.names
       /\ upd.err.names \cap UnmatchedFuels # {}

C12_Witness ==
    /\ upd.computed
    /\ oxidizer = "O2"
    /\ {"CH4", "NH3"} \subseteq DOMAIN reactants
    /\ ~InMixture("O2", reactants)
    /\ upd.err.kind = "ValueError"
    /\ upd.err.names = {"NH3", "O2"}

\* The locals of _update for the stored reactants: reactingMix and xReact,
\* inerts and xInert, and the stoichiometric blend
reactingPart ==
    reactingLoop(SpecieSeq(reactants), NonePart, oxReactionsOf(fuels, oxidizer),
                 reactants, oxidizer, fuels)

inertPart == inertLoop(SpecieSeq(reactants), NonePart, reactingPart.mix, reactants)

blend == stoichBlend(reactants, fuels, oxReactionsOf(fuels, oxidizer))

\* reactingMix[self.oxidizer]["X"] and stoichReactingMix[self.oxidizer]["X"]
xOxActual == X(reactingPart.mix, oxidizer)
xOxStoich == X(blend.stoichReactingMix, oxidizer)

\* The update just made has balanced a mixture with one fuel
SingleFuelBalanced == upd.ret = "False" /\ Len(fuels) = 1

\* C13: for reactants with one fuel in which the oxidizer fraction of the
\* reacting mixture equals that of the stoichiometric blend, the products hold
\* the fuel and the oxidizer only as far as the products of the reaction do.
C13_StoichiometricNoLeftover ==
    (SingleFuelBalanced /\ xOxActual = xOxStoich)
    => \A s \in {fuels[1], oxidizer} :
          LET p == oxReactionsOf(fuels, oxidizer)[fuels[1]].products IN
          /\ InMixture(s, products.mix) => InMixture(s, p)
          /\ ~FLess(X(p, s), X(products.mix, s))

C13_Witness ==
    /\ SingleFuelBalanced
    /\ xOxActual = xOxStoich
    /\ ~inertPart.none
    /\ products.mix = ("H2O" :> <<1, 2>>) @@ ("N2" :> <<1, 3>>) @@ ("CO2" :> <<1, 6>>)

\* The products of the reaction of the only fuel
reactionProducts == oxReactionsOf(fuels, oxidizer)[fuels[1]].products

\* The update just made has balanced a lean mixture with one fuel
SingleFuelLean == SingleFuelBalanced /\ FLess(xOxStoich, xOxActual)

\* C14 as stated: for a lean mixture with one fuel, the oxidizer fraction of
\* the products exceeds that of the reaction's products by the excess
\* (actual minus stoichiometric oxidizer fraction), and the products hold no fuel.
C14_LeanExcessOxidizer ==
    SingleFuelLean
    => /\ FSub(X(products.mix, oxidizer), X(reactionProducts, oxidizer))
            = FSub(xOxActual, xOxStoich)
       /\ X(products.mix, fuels[1]) = Zero

\* C14, amended: for a lean mixture with one fuel, the oxidizer fraction of
\* the products exceeds that of the reaction's products by the excess scaled
\* by the share of the reactants that is not inert, (actual - stoichiometric)
\* * (1 - xInert), which is the excess itself when there are no inerts; the
\* products hold no fuel.
C14_LeanExcessOxidizerScaled ==
    SingleFuelLean
    => /\ FSub(X(products.mix, oxidizer), X(reactionProducts, oxidizer))
            = FMul(FSub(xOxActual, xOxStoich), FSub(One, inertPart.x))
       /\ inertPart.none
            => X(products.mix, oxidizer) = FSub(xOxActual, xOxStoich)
       /\ X(products.mix, fuels[1]) = Zero

C14_Witness ==
    /\ SingleFuelLean
    /\ fuels = <<"H2">>
    /\ reactants = ("H2" :> <<1, 3>>) @@ ("O2" :> <<1, 3>>) @@ ("N2" :> <<1, 3>>)
    /\ products.mix = ("O2" :> <<1, 9>>) @@ ("N2" :> <<1, 3>>) @@ ("H2O" :> <<5, 9>>)

\* The update just made has balanced a rich mixture with one fuel
SingleFuelRich == SingleFuelBalanced /\ FLess(xOxActual, xOxStoich)

\* C15 as stated: for a rich mixture with one fuel, the products hold the fuel
\* at the excess (stoichiometric minus actual oxidizer fraction) and no
\* oxidizer.
C15_RichUnburnedFuel ==
    SingleFuelRich
    => /\ X(products.mix, fuels[1]) = FSub(xOxStoich, xOxActual)
       /\ X(products.mix, oxidizer) = Zero

\* C15, amended: for a rich mixture with one fuel, the products hold the fuel
\* at the excess scaled by the share of the reactants that is not inert,
\* (stoichiometric - actual) * (1 - xInert), which is the excess itself when
\* there are no inerts; the products hold no oxidizer.
C15_RichUnburnedFuelScaled ==
    SingleFuelRich
    => /\ blend.fuelMix = Pure(fuels[1])
       /\ X(products.mix, fuels[1])
            = FMul(FSub(xOxStoich, xOxActual), FSub(One, inertPart.x))
       /\ inertPart.none
            => X(products.mix, fuels[1]) = FSub(xOxStoich, xOxActual)
       /\ X(products.mix, oxidizer) = Zero

C15_Witness ==
    /\ SingleFuelRich
    /\ fuels = <<"CH4">>
    /\ reactants = ("CH4" :> <<1, 3>>) @@ ("O2" :> <<1, 3>>) @@ ("N2" :> <<1, 3>>)
    /\ products.mix = ("CH4" :> <<1, 9>>) @@ ("N2" :> <<1, 3>>)
                        @@ ("CO2" :> <<5, 27>>) @@ ("H2O" :> <<10, 27>>)

\* The species of the reactants that no located reaction consumes or produces
InertSpecies ==
    {s \in DOMAIN reactants :
        \A f \in DOMAIN oxReactionsOf(fuels, oxidizer) :
            /\ ~InMixture(s, oxReactionsOf(fuels, oxidizer)[f].reactants)
            /\ ~InMixture(s, oxReactionsOf(fuels, oxidizer)[f].products)}

TwoFuelBalanced == upd.ret = "False" /\ Len(fuels) = 2

\* The mole-weighted blend of two mixtures
WeightedPair(c, p1, p2) ==
    [s \in DOMAIN p1 \cup DOMAIN p2 |->
        FAdd(FMul(c[1], X(p1, s)), FMul(c[2], X(p2, s)))]

\* C17: for reactants with two fuels that each have their oxidation reaction,
\* the weights of the two reactions lie in [0,1] and sum to 1, the
\* stoichiometric products are the blend of the products of the two reactions
\* at those weights, and they are the products of the model when the mixture
\* is stoichiometric and has no inerts.
C17_TwoFuelWeights ==
    TwoFuelBalanced
    => LET c == blend.xStoich
           p1 == oxReactionsOf(fuels, oxidizer)[fuels[1]].products
           p2 == oxReactionsOf(fuels, oxidizer)[fuels[2]].products
       IN  /\ Len(c) = 2
           /\ \A i \in 1..2 : ~FLess(c[i], Zero) /\ ~FLess(One, c[i])
           /\ FAdd(c[1], c[2]) = One
           /\ blend.prods = WeightedPair(c, p1, p2)
           /\ (xOxActual = xOxStoich /\ inertPart.none)
                => products.mix = WeightedPair(c, p1, p2)

C17_Witness ==
    /\ TwoFuelBalanced
    /\ fuels = <<"CH4", "H2">>
    /\ reactants = ("CH4" :> <<1, 6>>) @@ ("H2" :> <<1, 3>>) @@ ("O2" :> <<1, 2>>)
    /\ blend.xStoich = <<(<<1, 2>>), (<<1, 2>>)>>
    /\ products.mix = ("CO2" :> <<1, 6>>) @@ ("H2O" :> <<5, 6>>)

\* C18: an update called with a mixture equal by value to the one an earlier
\* call stored (the reactants of the model) returns True without running the
\* fuel scan, the reaction lookup and the solve, and leaves products, fuels
\* and reactants as the earlier call left them.
C18_SecondUpdateIsNoOp ==
    [][(upd.ret # "init" /\ upd'.arg = reactants)
       => /\ ~upd'.computed
          /\ upd'.ret = "True"
          /\ products' = products
          /\ fuels' = fuels
          /\ reactants' = reactants]_vars

C18_Witness ==
    /\ upd.arg = reactants
    /\ upd.ret = "True"
    /\ ~upd.computed
    /\ products = Computations[oxidizer][reactants].products
    /\ products.mix = ("CO2" :> <<1, 3>>) @@ ("H2O" :> <<2, 3>>)

\* C19: whenever a call of update returns (a read of products makes such a
\* call with no argument), the balance of the current reactants raises no
\* error and products is its result: products computed for earlier reactants
\* are not kept once the reactants have been replaced.
C19_ProductsFollowReactants ==
    upd.ret \in {"True", "False", "self"}
    => /\ Computations[oxidizer][reactants].ret # "raised"
       /\ products.mix = Computations[oxidizer][reactants].products.mix

-----------------------------------------------------------------------------
(* Properties of StoichiometricCombustion.fromDictionary                   *)

\* The last call was a selector call that reached the fromDictionary of
\* StoichiometricCombustion or of a class that inherits it
ReachedFromDictionary ==
    /\ last.op = "selector"
    /\ tables[last.cls] # NoTable
    /\ last.arg \in DOMAIN TableDb(last.cls)
    /\ issubclass(TableDb(last.cls)[last.arg], "StoichiometricCombustion")

C21_OxidizerFixed ==
    [][oxidizer' = oxidizer]_vars

C21_Witness ==
    /\ oxidizer = "N2O"
    /\ upd.ret = "fuel"
    /\ reactants # EmptyMixture
    /\ fuels # <<>>


-----------------------------------------------------------------------------
(* Properties of Dictionary and of the engine model                        *)

\* C22: lookupOrDefault(entryName, default) called on a Dictionary returns the
\* stored value when the entry is present and the default when it is absent,
\* and does not raise.
C22_LookupOrDefaultReturns ==
    eng.op = "lookupOrDefault" =>
        /\ eng.ok
        /\ eng.val = IF eng.key \in DOMAIN dicts[eng.dict]
                     THEN dicts[eng.dict][eng.key]
                     ELSE eng.arg

\* C29: without an "EgrModel" entry in combustionProperties,
\* _constructEgrModel completes without error and leaves the default EGR
\* sub-model in EgrModel.
C29_DefaultEgrModel ==
    (/\ eng.op = "_constructEgrModel"
     /\ "EgrModel" \notin DOMAIN dicts["combustionProperties"])
    => (eng.ok /\ EgrModel = DefaultEgrModel)

\* The steps of the data later than time t, in increasing order
StepsAfter(t) == Sorted({s \in CA : s > t})

-----------------------------------------------------------------------------
(* Properties of the partition, the linear system and the return value     *)

\* Lines 179-233 for the stored reactants: the reacting mixture with xReact
\* and the inerts with xInert, or the TypeError of the test at line 228 when
\* reactingMix is still None
partition ==
    IF reactingPart.none /\ reactants # EmptyMixture
    THEN [raised |-> TRUE, reacting |-> reactingPart, inerts |-> NonePart]
    ELSE [raised |-> FALSE, reacting |-> reactingPart, inerts |-> inertPart]

\* The species of the reactants that are reactants of a located reaction all
\* of whose reactants are in the mixture
Consumed ==
    {s \in DOMAIN reactants :
        \E f \in DOMAIN oxReactionsOf(fuels, oxidizer) :
            /\ InMixture(s, oxReactionsOf(fuels, oxidizer)[f].reactants)
            /\ \A sR \in DOMAIN oxReactionsOf(fuels, oxidizer)[f].reactants :
                  InMixture(sR, reactants)}

\* The partition holds the species S of the reactants at their mole fractions
\* renormalised to sum to one
Renormalised(part, S) ==
    /\ DOMAIN part.mix = S
    /\ part.x = SumX(reactants, S)
    /\ S # {} => /\ ~part.none
                 /\ SumX(part.mix, S) = One
                 /\ \A s \in S : part.mix[s] = FDiv(reactants[s], part.x)

\* C23: when the products of a non-empty mixture are computed, the reacting
\* mixture holds exactly the species that are reactants of a located reaction
\* all of whose reactants are present, the inerts hold exactly the other
\* species, each holds its species at fractions renormalised to sum to one,
\* and xReact + xInert = 1.
C23_ReactingInertPartition ==
    (/\ upd.computed
     /\ reactants # EmptyMixture
     /\ missingReaction(fuels, oxidizer) = {})
    => /\ ~partition.raised
       /\ Renormalised(partition.reacting, Consumed)
       /\ Renormalised(partition.inerts, DOMAIN reactants \ Consumed)
       /\ FAdd(partition.reacting.x, partition.inerts.x) = One


\* The linear system of the balance just made
systemM == matrixM(fuels, oxReactionsOf(fuels, oxidizer), blend.fuelMix)
systemV == vectorV(Len(fuels))

\* Row i of M times the vector x
RowTimes(M, i, x) == SumSeq([j \in 1..Len(x) |-> FMul(M[i][j], x[j])])

\* Everything the statement says of the system but the diagonal: the last
\* column holds minus the fraction of fuel i in the fuel mixture, the other
\* entries off the diagonal of the first n rows are zero, the last row is ones
\* closed by zero, and the right-hand side is zero but for 1 in the last row
SystemFrame ==
    /\ Len(systemM) = Len(fuels) + 1
    /\ \A i \in 1..Len(fuels) :
          /\ Len(systemM[i]) = Len(fuels) + 1
          /\ systemM[i][Len(fuels) + 1] = FSub(Zero, X(extract(reactants, fuels), fuels[i]))
          /\ \A j \in 1..Len(fuels) : j # i => systemM[i][j] = Zero
          /\ systemV[i] = Zero
    /\ \A j \in 1..Len(fuels) : systemM[Len(fuels) + 1][j] = One
    /\ systemM[Len(fuels) + 1][Len(fuels) + 1] = Zero
    /\ systemV[Len(fuels) + 1] = One

\* C24 as stated: the diagonal entry of row i is the oxidizer mole fraction in
\* the reactants of reaction i.
C24_SystemOxidizerDiagonal ==
    upd.ret = "False"
    => /\ SystemFrame
       /\ \A i \in 1..Len(fuels) :
             systemM[i][i] = X(oxReactionsOf(fuels, oxidizer)[fuels[i]].reactants, oxidizer)

\* C24, amended: the diagonal entry of row i is the mole fraction of fuel i in
\* the reactants of reaction i; the rest of the system is as stated, and the
\* weights used for the blend, with some factor f as last unknown, solve it.
C24_SystemFuelDiagonal ==
    upd.ret = "False"
    => /\ SystemFrame
       /\ \A i \in 1..Len(fuels) :
             systemM[i][i] = X(oxReactionsOf(fuels, oxidizer)[fuels[i]].reactants, fuels[i])
       /\ \E i \in 1..Len(fuels) :
             LET f == FDiv(FMul(systemM[i][i], blend.xStoich[i]),
                           FSub(Zero, systemM[i][Len(fuels) + 1]))
                 x == [k \in 1..(Len(fuels) + 1) |->
                          IF k <= Len(fuels) THEN blend.xStoich[k] ELSE f]
             IN  \A k \in 1..(Len(fuels) + 1) : RowTimes(systemM, k, x) = systemV[k]

C24_Witness ==
    /\ upd.ret = "False"
    /\ fuels = <<"CH4", "H2">>
    /\ systemM = << <<(<<1, 3>>), Zero, (<<-1, 2>>)>>,
                    <<Zero, (<<2, 3>>), (<<-1, 2>>)>>,
                    <<One, One, Zero>> >>
    /\ blend.xStoich = << (<<2, 3>>), (<<1, 3>>) >>


\* bool(ret) for the values _update returns: True, False, or the model itself
\* (an object of a class without __bool__ or __len__)
Truthy(ret) == ret \in {"True", "self"}

\* C25: _update returns a true value only when the reactants were already up
\* to date and nothing was recomputed; an update that changed the reactants,
\* the passthrough included, returns a false value.
C25_TrueOnlyWhenUpToDate ==
    upd.ret \in {"True", "False", "self"} => (Truthy(upd.ret) <=> ~upd.computed)

\* C26: when update(reactants = r) has raised during the computation, the next
\* update(reactants = r) raises again; it does not report r as up to date.
C26_FailedUpdateFailsAgain ==
    [][(upd.ret = "raised" /\ upd'.arg = upd.arg) => upd'.ret = "raised"]_vars


\* C27: the products left by the passthrough are a copy of the reactants: an
\* in-place change of the reactants mixture made afterwards does not change
\* them.
C27_PassthroughCopies ==
    [][(upd.ret = "self" /\ upd'.ret = "dilute") => products'.mix = products.mix]_vars


\* The atoms of each molecule
Elements == {"C", "H", "O", "N"}

Atoms ==
    [CH4 |-> [C |-> 1, H |-> 4, O |-> 0, N |-> 0],
     H2  |-> [C |-> 0, H |-> 2, O |-> 0, N |-> 0],
     NH3 |-> [C |-> 0, H |-> 3, O |-> 0, N |-> 1],
     O2  |-> [C |-> 0, H |-> 0, O |-> 2, N |-> 0],
     N2  |-> [C |-> 0, H |-> 0, O |-> 0, N |-> 2],
     CO2 |-> [C |-> 1, H |-> 0, O |-> 2, N |-> 0],
     H2O |-> [C |-> 0, H |-> 2, O |-> 1, N |-> 0]]

\* Atoms of element e per mole of the mixture
elementTotal(mix, e) ==
    SumSeq([i \in 1..Len(SpecieOrder) |->
               FMul(X(mix, SpecieOrder[i]), Frac(Atoms[SpecieOrder[i]][e], 1))])

\* The reaction has as many moles of products as of reactants: the atoms per
\* mole are the same on both sides
ConservesMoles(react) ==
    \A e \in Elements : elementTotal(react.reactants, e) = elementTotal(react.products, e)

\* C28: for reactants made of one fuel and the oxidizer only, whose reaction
\* conserves the number of moles (CH4 with O2), lean, rich or stoichiometric,
\* the products hold per mole the atoms of each element that the reactants
\* hold per mole.
C28_AtomConservation ==
    (/\ SingleFuelBalanced
     /\ DOMAIN reactants = {fuels[1], oxidizer}
     /\ ConservesMoles(oxReactionsOf(fuels, oxidizer)[fuels[1]]))
    => \A e \in Elements : elementTotal(products.mix, e) = elementTotal(reactants, e)

====
